---- MODULE Spec2Model ----
(***************************************************************************)
(* Peer liveness tracking, DDNS change detection and self-healing          *)
(* reconnection of the WireGuard gateway:                                  *)
(*   app/services/wireguard_monitor.py  (WireGuardMonitor)                 *)
(*   app/services/dns_resolver.py       (DNSResolver)                      *)
(*   app/services/auto_reconnect.py     (AutoReconnectService)             *)
(*   app/tasks.py                       (monitor_wireguard)                *)
(*   app/routes/main.py                 (request handlers)                 *)
(*                                                                         *)
(* The wall clock `now` counts minutes.  Durations parsed from the tunnel  *)
(* tool's text are in seconds, as the code computes them.                  *)
(***************************************************************************)
EXTENDS Integers, Sequences, FiniteSets, TLC

VARIABLES
    now,              \* wall clock, minutes
    ticks,            \* number of clock advances so far (bounds the run)
    \* ---- duration parser, applied to one input
    hsText,           \* the handshake text handed to the parser
    hsParsed,         \* what the parser made of it
    \* ---- tunnel tool and WireGuardMonitor
    wgUp,             \* the interface exists (wg show succeeds)
    wgListing,        \* the peer blocks wg show prints, in order
    last_handshakes,  \* WireGuardMonitor._last_handshakes (seconds)
    last_alerts,      \* WireGuardMonitor._last_alerts (minutes)
    clientStatus,     \* Client Store: status of the monitored client
    mon,              \* the threads running check_and_alert: their locals
    alertLog,         \* per peer, when the last alert was sent and whether one came too soon
    retryOwed,        \* per peer, the last send failed (and left _last_alerts alone)
    pollInfo,         \* what the last finished handshake-loop poll did
    \* ---- DNSResolver
    client_hostnames, \* DNSResolver._client_hostnames, in insertion order
    resolved_ips,     \* DNSResolver._resolved_ips
    last_checks,      \* DNSResolver._last_checks
    changes,          \* the list check_hostname_changes returned last
    dnsGhost,         \* history of registrations and checks
    \* ---- AutoReconnectService
    attempts,         \* AutoReconnectService._reconnection_attempts
    storeClients,     \* Client Store: the clients get_client finds
    rc,               \* the threads running _reconnect_client: their locals
    lastCall,         \* what the last finished reconnect operation did
    \* ---- application start and the DNS monitoring thread
    boot,             \* what init_dns_monitoring_and_auto_reconnect has done
    endpoints,        \* Client Store: the Endpoint host of each client's config
    dnsLoop,          \* the monitor_dns thread: its position and locals
    ck                \* check_hostname_changes in progress: its locals

clockVars == <<now, ticks>>
parseVars == <<hsText, hsParsed>>
monVars == <<wgUp, wgListing, last_handshakes, last_alerts, clientStatus, mon,
             alertLog, retryOwed, pollInfo>>
dnsVars == <<client_hostnames, resolved_ips, last_checks, changes, dnsGhost>>
reconVars == <<attempts, storeClients, rc, lastCall>>
appVars == <<boot, endpoints, dnsLoop, ck>>
vars == <<clockVars, parseVars, monVars, dnsVars, reconVars, appVars>>

(***************************************************************************)
(* Program constants (minutes) and model bounds.                           *)
(***************************************************************************)
MAX_RECONNECT_ATTEMPTS == 3
RECONNECT_COOLDOWN == 5
ALERT_COOLDOWN == 60
DISCONNECT_THRESHOLD == 30
DNS_CHECK_INTERVAL == 5

MaxN == 2          \* numbers 0..MaxN appear in handshake texts
MaxSkew == 1       \* microseconds the clock may advance between two readings
MaxTicks == 3      \* clock advances in one run of the reconnection controller
MaxMonTicks == 2   \* clock advances in one run of the monitor
MaxDnsTicks == 2   \* clock advances in one run of the resolver

(***************************************************************************)
(* Handshake texts.  A text is "Now", a comma-joined list of parts         *)
(* "<n> <unit>[s]" followed by " ago", the literal "0", or some other text *)
(* with no comma and no unit word.  "none" stands for a peer block without *)
(* a handshake line.  A part's number token is numeric or not (int()       *)
(* raises ValueError on the latter).                                       *)
(***************************************************************************)
Units == {"second", "minute", "hour", "day"}

UnitSeconds(u) ==
    CASE u = "second" -> 1
      [] u = "minute" -> 60
      [] u = "hour" -> 3600
      [] u = "day" -> 86400

Part(n, u, pl) == [n |-> n, isnum |-> TRUE, unit |-> u, plural |-> pl]
BadPart(u, pl) == [n |-> 0, isnum |-> FALSE, unit |-> u, plural |-> pl]

NowText == [kind |-> "now", parts |-> <<>>]
ZeroText == [kind |-> "zero", parts |-> <<>>]
OtherText == [kind |-> "other", parts |-> <<>>]
NoLine == [kind |-> "none", parts |-> <<>>]
Ago(parts) == [kind |-> "ago", parts |-> parts]

NumValues == (0..MaxN) \cup {DISCONNECT_THRESHOLD - 1, DISCONNECT_THRESHOLD,
                             DISCONNECT_THRESHOLD + 1, 45}

NumParts == {Part(n, u, pl) : n \in NumValues, u \in Units, pl \in BOOLEAN}
AllParts == NumParts \cup {BadPart(u, pl) : u \in Units, pl \in BOOLEAN}

\* The inputs the parser is applied to.
ParserInputs ==
    {NowText, ZeroText, OtherText}
    \cup {Ago(<<p>>) : p \in AllParts}
    \cup {Ago(<<p, q>>) : p \in NumParts, q \in NumParts}
    \cup {Ago(<<p, q>>) : p \in {BadPart("minute", TRUE), BadPart("hour", TRUE)},
                          q \in {Part(1, "second", FALSE), Part(2, "minute", TRUE)}}

(***************************************************************************)
(* check_interface, lines 71-93: the elapsed seconds of an "ago" text.     *)
(* ok = FALSE is the ValueError int() raises.                              *)
(***************************************************************************)
\* One part of a comma-joined text: only 'minute' and 'second' are looked for.
CombinedPart(p) ==
    IF p.unit = "minute" THEN [ok |-> p.isnum, secs |-> p.n * 60]
    ELSE IF p.unit = "second" THEN [ok |-> p.isnum, secs |-> p.n]
    ELSE [ok |-> TRUE, secs |-> 0]

RECURSIVE CombinedSum(_, _)
CombinedSum(parts, i) ==
    IF i > Len(parts) THEN 0
    ELSE CombinedPart(parts[i]).secs + CombinedSum(parts, i + 1)

\* A text without a comma: '<unit>s ago' must occur literally.
SinglePart(p) ==
    IF p.plural THEN [ok |-> p.isnum, secs |-> p.n * UnitSeconds(p.unit)]
    ELSE [ok |-> TRUE, secs |-> 0]

ParseDuration(text) ==
    IF text.kind = "ago" /\ Len(text.parts) >= 2
    THEN [ok |-> \A i \in 1..Len(text.parts) : CombinedPart(text.parts[i]).ok,
          secs |-> CombinedSum(text.parts, 1)]
    ELSE IF text.kind = "ago" /\ Len(text.parts) = 1
    THEN SinglePart(text.parts[1])
    ELSE [ok |-> TRUE, secs |-> 0]

\* check_interface, lines 60-68 and 106-108: "0" is skipped, "Now" is zero
\* seconds, everything else goes through ParseDuration.
ParseHandshake(text) ==
    IF text.kind = "now" THEN [ok |-> TRUE, secs |-> 0]
    ELSE ParseDuration(text)

(***************************************************************************)
(* Optional values: a timestamp that may be absent.                        *)
(***************************************************************************)
Some(t) == [has |-> TRUE, t |-> t]
Nothing == [has |-> FALSE, t |-> 0]

(***************************************************************************)
(* WireGuardMonitor.check_interface                                        *)
(***************************************************************************)
PeerKeys == {"p1", "p2"}
MonThreads == {"hs", "req"}   \* handshake loop, request-triggered test

\* time_since_handshake <= DISCONNECT_THRESHOLD (line 100).  The handshake
\* time is one clock reading minus the parsed seconds (line 95) and the
\* elapsed time is a second clock reading minus the handshake time (line 99):
\* secs seconds plus the skew microseconds the clock advanced in between.
\* timedelta compares (seconds, microseconds) in that order.
WithinThreshold(secs, skew) ==
    \/ secs < DISCONNECT_THRESHOLD * 60
    \/ secs = DISCONNECT_THRESHOLD * 60 /\ skew = 0

\* Lines 56-108 for one peer block: connected by default, disconnected only
\* when a parsed handshake is older than the threshold.
ClassifyPeerFailClosed(hs, skew) ==
    IF hs.kind \in {"none", "zero", "now"} THEN TRUE
    ELSE IF ~ParseHandshake(hs).ok THEN FALSE
    ELSE WithinThreshold(ParseHandshake(hs).secs, skew)

ClassifyPeer(hs, skew) ==
    IF hs.kind \in {"none", "zero", "now"} THEN TRUE
    ELSE IF ~ParseHandshake(hs).ok THEN TRUE
    ELSE WithinThreshold(ParseHandshake(hs).secs, skew)

\* The dict check_interface returns, in listing order; <<>> is {} (the
\* interface does not exist, lines 37-43).
CheckInterface(up, listing, skews) ==
    IF ~up THEN <<>>
    ELSE [i \in 1..Len(listing) |->
            [key |-> listing[i].key, conn |-> ClassifyPeer(listing[i].hs, skews[i])]]

\* Lines 64-65 and 95-96: the handshake time check_interface stores.
StoresHandshake(hs) ==
    hs.kind = "now" \/ (hs.kind \in {"ago", "other"} /\ ParseHandshake(hs).ok)

HandshakesAfter(lh, up, listing, nowSec) ==
    [p \in PeerKeys |->
        IF up /\ \E i \in 1..Len(listing) :
                    listing[i].key = p /\ StoresHandshake(listing[i].hs)
        THEN LET i == CHOOSE j \in 1..Len(listing) :
                        listing[j].key = p /\ StoresHandshake(listing[j].hs)
             IN Some(nowSec - ParseHandshake(listing[i].hs).secs)
        ELSE lh[p]]

\* is_peer_connected at clock reading nowSec: a peer without a recorded
\* handshake is not connected (line 191); otherwise the elapsed time must
\* be less than DISCONNECT_THRESHOLD (line 194).
IsPeerConnected(lh, p, nowSec) ==
    lh[p].has /\ (nowSec - lh[p].t) < DISCONNECT_THRESHOLD * 60

\* get_connection_status: an entry for every peer with a recorded
\* handshake, connected by the same comparison (line 206).
GetConnectionStatus(lh, nowSec) ==
    [p \in {q \in PeerKeys : lh[q].has} |->
        [connected |-> (nowSec - lh[p].t) < DISCONNECT_THRESHOLD * 60,
         time_since_handshake |-> nowSec - lh[p].t]]

Skews(listing) == [1..Len(listing) -> 0..MaxSkew]

Keys(result) == {result[i].key : i \in 1..Len(result)}

(***************************************************************************)
(* WireGuardMonitor.check_and_alert, run by the handshake loop             *)
(* (tasks.py, thread "hs") and by the monitoring test (routes/main.py      *)
(* test_monitoring, thread "req").  No lock guards _last_alerts: the read  *)
(* at line 131, the blocking send at line 138 and the write at line 149    *)
(* are separate steps.                                                     *)
(***************************************************************************)
IdleThread ==
    [pc |-> "idle", status |-> "active", first |-> <<>>, peers |-> <<>>,
     nowLocal |-> 0, idx |-> 1, dispatched |-> {}, owed |-> {}, stable |-> TRUE]

\* Line 132: no alert yet, or the last one is older than the cooldown.
AlertDue(la, key, nowLocal) ==
    ~la[key].has \/ (nowLocal - la[key].t) > ALERT_COOLDOWN

\* The peers of the current listing whose handshake is older than the
\* threshold, whatever the clock skew.
WorldDisconnected ==
    IF ~wgUp THEN {}
    ELSE {wgListing[i].key : i \in {j \in 1..Len(wgListing) :
            /\ wgListing[j].hs.kind = "ago"
            /\ ParseHandshake(wgListing[j].hs).ok
            /\ ParseHandshake(wgListing[j].hs).secs > DISCONNECT_THRESHOLD * 60}}

\* tasks.py lines 20-34: one client of one poll.  An inactive client is
\* skipped; otherwise check_interface runs (line 34).
HsBegin ==
    /\ mon["hs"].pc = "idle"
    /\ IF clientStatus # "active"
       THEN /\ pollInfo' = [n |-> 1, skipped |-> TRUE, dispatched |-> {},
                            owedDisc |-> {p \in PeerKeys : retryOwed[p].owed}
                                            \cap WorldDisconnected]
            /\ UNCHANGED <<mon, last_handshakes>>
       ELSE /\ \E sk \in Skews(wgListing) :
                 mon' = [mon EXCEPT !["hs"] =
                    [IdleThread EXCEPT !.pc = "alert", !.status = clientStatus,
                        !.first = CheckInterface(wgUp, wgListing, sk),
                        !.owed = {p \in PeerKeys : retryOwed[p].owed}]]
            /\ last_handshakes' =
                 HandshakesAfter(last_handshakes, wgUp, wgListing, now * 60)
            /\ UNCHANGED pollInfo
    /\ UNCHANGED <<wgUp, wgListing, last_alerts, clientStatus, alertLog, retryOwed>>
    /\ UNCHANGED <<clockVars, parseVars, dnsVars, reconVars, appVars>>

\* routes/main.py lines 1005-1018: the monitoring test checks active clients.
ReqBegin ==
    /\ mon["req"].pc = "idle"
    /\ clientStatus = "active"
    /\ mon' = [mon EXCEPT !["req"] = [IdleThread EXCEPT !.pc = "alert"]]
    /\ UNCHANGED <<wgUp, wgListing, last_handshakes, last_alerts, clientStatus,
                   alertLog, retryOwed, pollInfo>>
    /\ UNCHANGED <<clockVars, parseVars, dnsVars, reconVars, appVars>>

\* check_and_alert lines 124-125: check_interface again, then the clock.
CaStart(t) ==
    /\ mon[t].pc = "alert"
    /\ \E sk \in Skews(wgListing) :
         mon' = [mon EXCEPT ![t].pc = "loop",
                            ![t].peers = CheckInterface(wgUp, wgListing, sk),
                            ![t].nowLocal = now,
                            ![t].idx = 1]
    /\ last_handshakes' = HandshakesAfter(last_handshakes, wgUp, wgListing, now * 60)
    /\ UNCHANGED <<wgUp, wgListing, last_alerts, clientStatus, alertLog, retryOwed,
                   pollInfo>>
    /\ UNCHANGED <<clockVars, parseVars, dnsVars, reconVars, appVars>>

\* Lines 127-132: the next peer of the dict; an alert is due for a
\* disconnected peer out of cooldown.
CaStep(t) ==
    /\ mon[t].pc = "loop"
    /\ mon[t].idx <= Len(mon[t].peers)
    /\ LET e == mon[t].peers[mon[t].idx] IN
         IF ~e.conn /\ AlertDue(last_alerts, e.key, mon[t].nowLocal)
         THEN mon' = [mon EXCEPT ![t].pc = "send"]
         ELSE mon' = [mon EXCEPT ![t].idx = @ + 1]
    /\ UNCHANGED <<wgUp, wgListing, last_handshakes, last_alerts, clientStatus,
                   alertLog, retryOwed, pollInfo>>
    /\ UNCHANGED <<clockVars, parseVars, dnsVars, reconVars, appVars>>

\* Lines 137-183: send_alert returns True ("sent"), returns False ("failed")
\* or raises ("error"); only a sent alert sets _last_alerts (line 149).
SendOutcomes == {"sent", "failed", "error"}

AlertsAfterSend(la, key, outcome, nowLocal) ==
    IF outcome = "sent" THEN [la EXCEPT ![key] = Some(nowLocal)] ELSE la

CaSend(t, outcome) ==
    /\ mon[t].pc = "send"
    /\ LET key == mon[t].peers[mon[t].idx].key IN
         /\ last_alerts' = AlertsAfterSend(last_alerts, key, outcome, mon[t].nowLocal)
         /\ alertLog' = IF outcome = "sent"
                        THEN [alertLog EXCEPT ![key] =
                                [has |-> TRUE, last |-> now,
                                 tooSoon |-> @.tooSoon \/
                                    (@.has /\ now - @.last < ALERT_COOLDOWN)]]
                        ELSE alertLog
         /\ retryOwed' = [retryOwed EXCEPT ![key] =
                [owed |-> outcome # "sent",
                 kept |-> outcome = "sent" \/ last_alerts'[key] = last_alerts[key]]]
         /\ mon' = [mon EXCEPT ![t].pc = "loop", ![t].idx = @ + 1,
                               ![t].dispatched = @ \cup {key}]
    /\ UNCHANGED <<wgUp, wgListing, last_handshakes, clientStatus, pollInfo>>
    /\ UNCHANGED <<clockVars, parseVars, dnsVars, reconVars, appVars>>

\* The monitoring test is done with the client once check_and_alert returns.
ReqEnd ==
    /\ mon["req"].pc = "loop"
    /\ mon["req"].idx > Len(mon["req"].peers)
    /\ mon' = [mon EXCEPT !["req"] = IdleThread]
    /\ UNCHANGED <<wgUp, wgListing, last_handshakes, last_alerts, clientStatus,
                   alertLog, retryOwed, pollInfo>>
    /\ UNCHANGED <<clockVars, parseVars, dnsVars, reconVars, appVars>>

\* tasks.py lines 45-63, after check_and_alert returned: the status the
\* loop writes from the peers of its own check (line 34).
StatusAfterPoll(first, snapshot, current) ==
    IF Len(first) > 0
    THEN IF \E i \in 1..Len(first) : first[i].conn THEN "active" ELSE "inactive"
    ELSE IF snapshot # "inactive" THEN "inactive" ELSE current

HsUpdate ==
    /\ mon["hs"].pc = "loop"
    /\ mon["hs"].idx > Len(mon["hs"].peers)
    /\ clientStatus' = StatusAfterPoll(mon["hs"].first, mon["hs"].status, clientStatus)
    /\ pollInfo' = [n |-> 1, skipped |-> FALSE,
                    dispatched |-> mon["hs"].dispatched,
                    owedDisc |-> IF mon["hs"].stable
                                 THEN {p \in mon["hs"].owed : retryOwed[p].owed}
                                        \cap WorldDisconnected
                                 ELSE {}]
    /\ mon' = [mon EXCEPT !["hs"] = IdleThread]
    /\ UNCHANGED <<wgUp, wgListing, last_handshakes, last_alerts, alertLog, retryOwed>>
    /\ UNCHANGED <<clockVars, parseVars, dnsVars, reconVars, appVars>>

(***************************************************************************)
(* What drives the monitor from outside: the clock, the peers' handshakes, *)
(* and the request handlers that write the client's status.                *)
(***************************************************************************)
\* The handshake texts the tunnel tool shows for a peer over time.
MonTexts == {
    NowText,
    Ago(<<Part(DISCONNECT_THRESHOLD + 1, "minute", TRUE)>>) }

\* The texts of the listings check_interface is applied to.
ListingTexts == MonTexts \cup {
    NoLine,
    ZeroText,
    Ago(<<BadPart("minute", TRUE)>>),
    OtherText,
    Ago(<<Part(DISCONNECT_THRESHOLD - 1, "minute", TRUE)>>),
    Ago(<<Part(DISCONNECT_THRESHOLD, "minute", TRUE)>>),
    Ago(<<Part(2, "hour", TRUE)>>),
    Ago(<<Part(1, "hour", FALSE), Part(2, "minute", TRUE)>>),
    Ago(<<Part(1, "minute", FALSE), Part(45, "second", TRUE)>>),
    Ago(<<BadPart("minute", TRUE), Part(45, "second", TRUE)>>) }

Advance(d, max) ==
    /\ ticks < max
    /\ now' = now + d
    /\ ticks' = ticks + 1

TickMonitor ==
    /\ \E d \in {1, ALERT_COOLDOWN} : Advance(d, MaxMonTicks)
    /\ UNCHANGED <<parseVars, monVars, dnsVars, reconVars, appVars>>

Disturbed(m) ==
    [m EXCEPT !["hs"].stable = IF m["hs"].pc = "idle" THEN @ ELSE FALSE]

\* The peer handshakes again, or stays silent: the text wg show prints changes.
WgHandshake ==
    /\ \E i \in 1..Len(wgListing), text \in MonTexts :
         /\ text # wgListing[i].hs
         /\ wgListing' = [wgListing EXCEPT ![i].hs = text]
    /\ mon' = Disturbed(mon)
    /\ UNCHANGED <<wgUp, last_handshakes, last_alerts, clientStatus, alertLog,
                   retryOwed, pollInfo>>
    /\ UNCHANGED <<clockVars, parseVars, dnsVars, reconVars, appVars>>

\* routes/main.py get_clients (lines 657-675): the stored status is made to
\* match whether the interface exists.
ApiClientsSync ==
    /\ clientStatus # (IF wgUp THEN "active" ELSE "inactive")
    /\ clientStatus' = IF wgUp THEN "active" ELSE "inactive"
    /\ UNCHANGED <<wgUp, wgListing, last_handshakes, last_alerts, mon, alertLog,
                   retryOwed, pollInfo>>
    /\ UNCHANGED <<clockVars, parseVars, dnsVars, reconVars, appVars>>

(***************************************************************************)
(* Initial states                                                          *)
(***************************************************************************)
InitClock == now = 0 /\ ticks = 0

NotParsed == [done |-> FALSE, ok |-> TRUE, secs |-> 0]

InitParse == hsText = NowText /\ hsParsed = NotParsed

InitMonitorState ==
    /\ last_handshakes = [p \in PeerKeys |-> Nothing]
    /\ last_alerts = [p \in PeerKeys |-> Nothing]
    /\ clientStatus = "active"
    /\ mon = [t \in MonThreads |-> IdleThread]
    /\ alertLog = [p \in PeerKeys |-> [has |-> FALSE, last |-> 0, tooSoon |-> FALSE]]
    /\ retryOwed = [p \in PeerKeys |-> [owed |-> FALSE, kept |-> TRUE]]
    /\ pollInfo = [n |-> 0, skipped |-> FALSE, dispatched |-> {}, owedDisc |-> {}]

\* An active tunnel with one peer that has just handshaken.
InitMonitor ==
    /\ wgUp = TRUE
    /\ wgListing = <<[key |-> "p1", hs |-> NowText]>>
    /\ InitMonitorState

\* Any listing of one or two peers, the interface up or missing.
InitListing ==
    /\ wgUp \in BOOLEAN
    /\ wgListing \in
         {<<[key |-> "p1", hs |-> a]>> : a \in ListingTexts}
         \cup {<<[key |-> "p1", hs |-> a], [key |-> "p2", hs |-> b]>> :
                 a \in ListingTexts, b \in ListingTexts}
    /\ InitMonitorState

(***************************************************************************)
(* DNSResolver.  _client_hostnames is a dict keyed by hostname: a sequence *)
(* of entries, one per hostname, in insertion order.  _resolved_ips and    *)
(* _last_checks are dicts keyed by hostname; a missing key is NoAddr or    *)
(* Nothing.                                                                *)
(***************************************************************************)
Hostnames == {"h1", "h2"}
ClientIds == {"c1", "c2"}
Addrs == {"A", "B"}
NoAddr == ""

RegisteredHosts(reg) == {reg[i].host : i \in 1..Len(reg)}

HostnamesOf(reg, c) == {reg[i].host : i \in {j \in 1..Len(reg) : reg[j].client = c}}

\* cls._client_hostnames[hostname] = client_id
RegisterHostname(reg, c, h) ==
    IF h \in RegisteredHosts(reg)
    THEN [i \in 1..Len(reg) |->
            IF reg[i].host = h THEN [host |-> h, client |-> c] ELSE reg[i]]
    ELSE Append(reg, [host |-> h, client |-> c])

UnregisterFirstOnly(reg, c) ==
    LET mine == {i \in 1..Len(reg) : reg[i].client = c}
        first == CHOOSE i \in mine : \A j \in mine : i <= j
    IN  IF mine = {} THEN reg
        ELSE SubSeq(reg, 1, first - 1) \o SubSeq(reg, first + 1, Len(reg))

\* the registry once every hostname of the client is deleted
HostnamesAfterUnregister(reg, c) ==
    LET Keep(e) == e.client # c
    IN  SelectSeq(reg, Keep)

ChangeOrFirst(prev, cur) == prev # cur

\* if previous_ip and previous_ip != current_ip
IsChange(prev, cur) == prev # NoAddr /\ prev # cur

\* not (last_check and (now - last_check) < DNS_CHECK_INTERVAL)
DueForCheck(lc, h, t) == ~(lc[h].has /\ t - lc[h].t < DNS_CHECK_INTERVAL)

\* resolve_hostname gives None when the lookup fails; check_hostname_changes
\* goes on with a hostname only 'if current_ip'
LookupAlways(answer) == TRUE

LookupSucceeded(answer) == answer # NoAddr

\* What the name service may answer for the hostnames that are looked up.
NameService(hosts) ==
    {a \in [Hostnames -> Addrs \cup {NoAddr}] : \A h \in Hostnames \ hosts : a[h] = NoAddr}

\* the hostnames a check started now looks up (lines 125-132)
LookedUp ==
    {h \in RegisteredHosts(client_hostnames) : DueForCheck(last_checks, h, now)}

NotUnregistered == [done |-> FALSE, had |-> 0, checked |-> FALSE, referenced |-> FALSE]

RegisterClientHostname(c, h) ==
    /\ client_hostnames' = RegisterHostname(client_hostnames, c, h)
    /\ dnsGhost' =
         [dnsGhost EXCEPT
            !.seenReg[h] = NoAddr,
            !.seenNew[h] = IF h \in RegisteredHosts(client_hostnames) THEN @ ELSE NoAddr,
            !.failed = {},
            !.unreg[c] = NotUnregistered]
    /\ UNCHANGED <<resolved_ips, last_checks, changes>>
    /\ UNCHANGED <<clockVars, parseVars, monVars, reconVars, appVars>>

\* what unregister_client_hostname does to the resolver
Unregistered(c) ==
    LET gone == HostnamesOf(client_hostnames, c)
    IN  /\ client_hostnames' = HostnamesAfterUnregister(client_hostnames, c)
        /\ resolved_ips' = [h \in Hostnames |-> IF h \in gone THEN NoAddr ELSE resolved_ips[h]]
        /\ last_checks' = [h \in Hostnames |-> IF h \in gone THEN Nothing ELSE last_checks[h]]
        /\ dnsGhost' =
             [dnsGhost EXCEPT
                !.failed = {},
                !.unreg[c] = [done |-> TRUE, had |-> Cardinality(gone),
                              checked |-> FALSE, referenced |-> FALSE]]
        /\ UNCHANGED changes

UnregisterClientHostname(c) ==
    /\ Unregistered(c)
    /\ UNCHANGED <<clockVars, parseVars, monVars, reconVars, appVars>>

\* One run of check_hostname_changes; answers is what the name service
\* returns for each hostname at that moment (NoAddr: the lookup fails).
CheckedHostnames(answers) ==
    LET reg == client_hostnames
        Due(e) == DueForCheck(last_checks, e.host, now)
        Got(e) == Due(e) /\ LookupSucceeded(answers[e.host])
        Changed(e) == Got(e) /\ IsChange(resolved_ips[e.host], answers[e.host])
        Event(e) == [client_id |-> e.client, hostname |-> e.host,
                     previous_ip |-> resolved_ips[e.host],
                     current_ip |-> answers[e.host], timestamp |-> now]
        changed == SelectSeq(reg, Changed)
        got == {reg[i].host : i \in {j \in 1..Len(reg) : Got(reg[j])}}
        looked == {reg[i].client : i \in {j \in 1..Len(reg) : Due(reg[j])}}
        Expected(seen) ==
            {[hostname |-> h, previous_ip |-> seen[h], current_ip |-> answers[h]] :
                h \in {g \in got : seen[g] # NoAddr /\ seen[g] # answers[g]}}
    IN  /\ changes' = [i \in 1..Len(changed) |-> Event(changed[i])]
        /\ last_checks' = [h \in Hostnames |-> IF h \in got THEN Some(now) ELSE last_checks[h]]
        /\ resolved_ips' = [h \in Hostnames |-> IF h \in got THEN answers[h] ELSE resolved_ips[h]]
        /\ dnsGhost' =
             [seenReg |-> [h \in Hostnames |->
                             IF h \in got THEN answers[h] ELSE dnsGhost.seenReg[h]],
              seenNew |-> [h \in Hostnames |->
                             IF h \in got THEN answers[h] ELSE dnsGhost.seenNew[h]],
              expectedReg |-> Expected(dnsGhost.seenReg),
              expectedNew |-> Expected(dnsGhost.seenNew),
              failed |-> {reg[i].host : i \in {j \in 1..Len(reg) :
                                                  Due(reg[j]) /\ answers[reg[j].host] = NoAddr}},
              unreg |-> [c \in ClientIds |->
                           IF dnsGhost.unreg[c].done
                           THEN [dnsGhost.unreg[c] EXCEPT
                                   !.checked = @ \/ looked # {},
                                   !.referenced = @ \/ c \in looked
                                       \/ \E i \in 1..Len(changed) : changed[i].client = c]
                           ELSE dnsGhost.unreg[c]]]
        /\ UNCHANGED client_hostnames

CheckHostnameChanges(answers) ==
    /\ CheckedHostnames(answers)
    /\ UNCHANGED <<clockVars, parseVars, monVars, reconVars, appVars>>

TickDns ==
    /\ Advance(DNS_CHECK_INTERVAL, MaxDnsTicks)
    /\ UNCHANGED <<parseVars, monVars, dnsVars, reconVars, appVars>>

InitDns ==
    /\ client_hostnames = <<>>
    /\ resolved_ips = [h \in Hostnames |-> NoAddr]
    /\ last_checks = [h \in Hostnames |-> Nothing]
    /\ changes = <<>>
    /\ dnsGhost = [seenReg |-> [h \in Hostnames |-> NoAddr],
                   seenNew |-> [h \in Hostnames |-> NoAddr],
                   expectedReg |-> {}, expectedNew |-> {}, failed |-> {},
                   unreg |-> [c \in ClientIds |-> NotUnregistered]]

NextDns ==
    \/ \E c \in ClientIds, h \in Hostnames : RegisterClientHostname(c, h)
    \/ \E c \in ClientIds : UnregisterClientHostname(c)
    \/ \E answers \in NameService(LookedUp) : CheckHostnameChanges(answers)
    \/ TickDns

(***************************************************************************)
(* AutoReconnectService.  _reconnection_attempts is a dict keyed by client *)
(* id; a missing key is NoRecord.  _reconnect_client runs in the DNS       *)
(* thread (handle_dns_change) and in a request thread (the manual          *)
(* reconnect route); each step of it is one action.                        *)
(***************************************************************************)
ReconClients == {"c1"}
RcThreads == {"dns", "manual"}

NoRecord == [has |-> FALSE, count |-> 0, last_attempt |-> Nothing, last_success |-> Nothing]

GateCooldownOnly(att, t) ==
    IF ~att.has THEN [allow |-> TRUE, rec |-> att]
    ELSE IF att.last_attempt.has /\ t - att.last_attempt.t < RECONNECT_COOLDOWN
    THEN [allow |-> FALSE, rec |-> att]
    ELSE [allow |-> TRUE, rec |-> att]

\* _should_attempt_reconnection: the answer and the record it leaves
ShouldAttemptReconnection(att, t) ==
    IF ~att.has THEN [allow |-> TRUE, rec |-> att]
    ELSE IF att.count >= MAX_RECONNECT_ATTEMPTS
    THEN IF att.last_attempt.has /\ t - att.last_attempt.t > RECONNECT_COOLDOWN
         THEN [allow |-> TRUE,
               rec |-> [has |-> TRUE, count |-> 0, last_attempt |-> Some(t),
                        last_success |-> Nothing]]
         ELSE [allow |-> FALSE, rec |-> att]
    ELSE IF att.last_attempt.has /\ t - att.last_attempt.t < RECONNECT_COOLDOWN
    THEN [allow |-> FALSE, rec |-> att]
    ELSE [allow |-> TRUE, rec |-> att]

\* _update_reconnection_tracking
UpdateReconnectionTracking(att, success, t) ==
    LET base == IF att.has THEN att
                ELSE [has |-> TRUE, count |-> 0, last_attempt |-> Some(t),
                      last_success |-> Nothing]
    IN  IF success
        THEN [base EXCEPT !.last_attempt = Some(t), !.count = 0, !.last_success = Some(t)]
        ELSE [base EXCEPT !.last_attempt = Some(t), !.count = @ + 1]

StepOutcomes == {"ok", "error", "raises"}

AfterFailedDeactivateGoOn(outcome) == "activate"

\* if not success: return False (an exception returns False as well)
NextAfterDeactivate(outcome) == IF outcome = "ok" THEN "activate" ELSE "return"

NextAfterActivate(outcome) == IF outcome = "ok" THEN "mark" ELSE "return"

NoOutcomes == [deactivate |-> "none", activate |-> "none", mark |-> "none"]

\* The events _reconnect_client hands to log_monitoring_event: the attempt
\* when it starts (lines 96-100), success after the last step (lines 162-166),
\* failure with the exception's text in the except clause (lines 173-177).
\* The returns of lines 109 and 119, after deactivate or activate reported
\* an error, write to the logger only.  (The handshake event of lines
\* 149-153 depends on the ping alone and is not recorded here.)
AuditStart == <<"reconnect_attempt">>

AuditAfter(audit, step, outcome) ==
    IF outcome = "raises" THEN Append(audit, "reconnect_failed")
    ELSE IF step = "mark_active" /\ outcome = "ok" THEN Append(audit, "reconnect_success")
    ELSE audit

IdleRc == [pc |-> "idle", client |-> "", calls |-> <<>>, outs |-> NoOutcomes,
           audit |-> <<>>, result |-> FALSE, at |-> 0]

NoGate == [prior |-> FALSE, due |-> FALSE, allowed |-> FALSE]

NoCall == [called |-> FALSE, client |-> "", gate |-> NoGate, found |-> FALSE,
           attempted |-> FALSE, returned |-> FALSE, result |-> FALSE, calls |-> <<>>,
           outs |-> NoOutcomes, audit |-> <<>>, ret |-> "none"]

NoHistory == [t |-> Nothing, allFailed |-> TRUE]

\* lines 185-188: now is read and a missing record is created
EnsureRecord(att, t) ==
    IF att.has THEN att
    ELSE [has |-> TRUE, count |-> 0, last_attempt |-> Some(t), last_success |-> Nothing]

\* _reconnect_client returns result to its caller.  The manual route is
\* done; handle_dns_change enters _update_reconnection_tracking, which
\* reads the clock and makes sure the client has a record (lines 185-188).
Return(t, th, result) ==
    LET c == th.client
    IN  /\ rc' = [rc EXCEPT ![t] =
                    IF t = "dns"
                    THEN [th EXCEPT !.pc = "track", !.result = result, !.at = now]
                    ELSE IdleRc]
        /\ attempts' = [attempts EXCEPT ![c] =
                          IF t = "dns" THEN EnsureRecord(@, now) ELSE @]
        /\ lastCall' =
             [lastCall EXCEPT
                ![t] = [@ EXCEPT !.returned = TRUE, !.result = result,
                                 !.calls = th.calls, !.outs = th.outs,
                                 !.audit = th.audit],
                !.hist[c] = [t |-> IF t = "dns" THEN Some(now) ELSE @.t,
                             allFailed |-> @.allFailed /\ ~result]]

\* lines 190-201 and line 53: the record is fetched from the dict and
\* updated, and handle_dns_change returns True.  No lock is held since
\* line 188: when the record has been deleted meanwhile, line 190 raises
\* KeyError and handle_dns_change ends with that exception.
TrackUpdate ==
    LET th == rc["dns"]
        c == th.client
    IN  /\ th.pc = "track"
        /\ rc' = [rc EXCEPT !["dns"] = IdleRc]
        /\ IF attempts[c].has
           THEN /\ attempts' = [attempts EXCEPT ![c] =
                                  UpdateReconnectionTracking(@, th.result, th.at)]
                /\ lastCall' = [lastCall EXCEPT !.dns.ret = "true"]
           ELSE /\ UNCHANGED attempts
                /\ lastCall' = [lastCall EXCEPT !.dns.ret = "raised"]
        /\ UNCHANGED storeClients
        /\ UNCHANGED <<clockVars, parseVars, monVars, dnsVars, appVars>>

\* what handle_dns_change does to the controller up to the call of
\* _reconnect_client
HandledDnsChange(c) ==
    LET g == ShouldAttemptReconnection(attempts[c], now)
        h == lastCall.hist[c]
        gate == [prior |-> h.t.has /\ h.allFailed,
                 due |-> h.t.has /\ now - h.t.t >= RECONNECT_COOLDOWN,
                 allowed |-> g.allow]
        go == g.allow /\ c \in storeClients
    IN  /\ rc["dns"].pc = "idle"
        /\ attempts' = [attempts EXCEPT ![c] = g.rec]
        /\ rc' = [rc EXCEPT !["dns"] =
                    IF go THEN [IdleRc EXCEPT !.pc = "deactivate", !.client = c,
                                              !.audit = AuditStart]
                    ELSE @]
        /\ lastCall' = [lastCall EXCEPT !.dns =
                    [NoCall EXCEPT !.called = TRUE, !.client = c, !.gate = gate,
                                   !.found = c \in storeClients,
                                   !.attempted = go, !.returned = ~go,
                                   !.ret = IF go THEN "none" ELSE "false"]]
        /\ UNCHANGED storeClients

HandleDnsChange(c) ==
    /\ HandledDnsChange(c)
    /\ UNCHANGED <<clockVars, parseVars, monVars, dnsVars, appVars>>

ManualReconnectClient(c) ==
    LET go == c \in storeClients
    IN  /\ rc["manual"].pc = "idle"
        /\ rc' = [rc EXCEPT !["manual"] =
                    IF go THEN [IdleRc EXCEPT !.pc = "deactivate", !.client = c,
                                              !.audit = AuditStart]
                    ELSE @]
        /\ lastCall' = [lastCall EXCEPT !.manual =
                    [NoCall EXCEPT !.called = TRUE, !.client = c, !.found = go,
                                   !.attempted = go, !.returned = ~go]]
        /\ UNCHANGED <<attempts, storeClients>>
        /\ UNCHANGED <<clockVars, parseVars, monVars, dnsVars, appVars>>

\* deactivate_client and activate_client run wg-quick with subprocess.run
\* and no timeout: besides the outcomes above, the command may never
\* return ("hangs"), and the thread stays in the call.
RcDeactivate(t, outcome) ==
    LET th == [rc[t] EXCEPT !.calls = Append(@, "deactivate"), !.outs.deactivate = outcome,
                            !.audit = AuditAfter(@, "deactivate", outcome)]
    IN  /\ rc[t].pc = "deactivate"
        /\ wgUp' = IF outcome = "ok" THEN FALSE ELSE wgUp
        /\ IF outcome = "hangs"
           THEN /\ rc' = [rc EXCEPT ![t].pc = "hung"]
                /\ UNCHANGED <<attempts, lastCall>>
           ELSE IF NextAfterDeactivate(outcome) = "activate"
           THEN /\ rc' = [rc EXCEPT ![t] = [th EXCEPT !.pc = "activate"]]
                /\ UNCHANGED <<attempts, lastCall>>
           ELSE Return(t, th, FALSE)
        /\ UNCHANGED <<storeClients, wgListing, last_handshakes, last_alerts, clientStatus,
                       mon, alertLog, retryOwed, pollInfo>>
        /\ UNCHANGED <<clockVars, parseVars, dnsVars, appVars>>

RcActivate(t, outcome) ==
    LET th == [rc[t] EXCEPT !.calls = Append(@, "activate"), !.outs.activate = outcome,
                            !.audit = AuditAfter(@, "activate", outcome)]
    IN  /\ rc[t].pc = "activate"
        /\ wgUp' = IF outcome = "ok" THEN TRUE ELSE wgUp
        /\ IF outcome = "hangs"
           THEN /\ rc' = [rc EXCEPT ![t].pc = "hung"]
                /\ UNCHANGED <<attempts, lastCall>>
           ELSE IF NextAfterActivate(outcome) = "mark"
           THEN /\ rc' = [rc EXCEPT ![t] = [th EXCEPT !.pc = "mark"]]
                /\ UNCHANGED <<attempts, lastCall>>
           ELSE Return(t, th, FALSE)
        /\ UNCHANGED <<storeClients, wgListing, last_handshakes, last_alerts, clientStatus,
                       mon, alertLog, retryOwed, pollInfo>>
        /\ UNCHANGED <<clockVars, parseVars, dnsVars, appVars>>

\* update_client_status(client_id, 'active'), the probe and the success
\* log; an exception of the store is caught and returns False.
RcMarkActive(t, outcome) ==
    LET th == [rc[t] EXCEPT !.calls = Append(@, "mark_active"), !.outs.mark = outcome,
                            !.audit = AuditAfter(@, "mark_active", outcome)]
    IN  /\ rc[t].pc = "mark"
        /\ clientStatus' = IF outcome = "ok" THEN "active" ELSE clientStatus
        /\ Return(t, th, outcome = "ok")
        /\ UNCHANGED <<storeClients, wgUp, wgListing, last_handshakes, last_alerts,
                       mon, alertLog, retryOwed, pollInfo>>
        /\ UNCHANGED <<clockVars, parseVars, dnsVars, appVars>>

\* get_reconnection_status evaluates the gate for every client with a record
GetReconnectionStatus ==
    /\ attempts' = [c \in ReconClients |->
                      IF attempts[c].has
                      THEN ShouldAttemptReconnection(attempts[c], now).rec
                      ELSE attempts[c]]
    /\ UNCHANGED <<storeClients, rc, lastCall>>
    /\ UNCHANGED <<clockVars, parseVars, monVars, dnsVars, appVars>>

\* get_reconnection_status as the interpreter runs it: the loop over
\* _reconnection_attempts.items() (line 212) takes the dict's size when it
\* starts, and its body (lines 213-224) ends with the gate's call, after
\* which another thread may run.  HasRecord is the set of keys of the dict.
HasRecord == {c \in ReconClients : attempts[c].has}

NoStatusCall == [pc |-> "idle", size |-> 0, raised |-> FALSE]

StatusBegin ==
    /\ lastCall.status.pc = "idle"
    /\ attempts' = [c \in ReconClients |->
                      IF attempts[c].has
                      THEN ShouldAttemptReconnection(attempts[c], now).rec
                      ELSE attempts[c]]
    /\ lastCall' = [lastCall EXCEPT !.status =
                      IF HasRecord = {} THEN NoStatusCall
                      ELSE [pc |-> "body", size |-> Cardinality(HasRecord),
                            raised |-> FALSE]]
    /\ UNCHANGED <<storeClients, rc>>
    /\ UNCHANGED <<clockVars, parseVars, monVars, dnsVars, appVars>>

\* line 212 again: the iterator is asked for the next item and raises
\* RuntimeError when the dict's size is no longer the one it started with;
\* otherwise the loop is over and the status is returned (line 226).
StatusNext ==
    /\ lastCall.status.pc = "body"
    /\ lastCall' = [lastCall EXCEPT !.status =
                      [pc |-> "idle", size |-> 0,
                       raised |-> Cardinality(HasRecord) # lastCall.status.size]]
    /\ UNCHANGED <<attempts, storeClients, rc>>
    /\ UNCHANGED <<clockVars, parseVars, monVars, dnsVars, appVars>>

ClearReconnectionHistory(c) ==
    /\ attempts' = [attempts EXCEPT ![c] = NoRecord]
    /\ lastCall' = [lastCall EXCEPT !.hist[c] = NoHistory]
    /\ UNCHANGED <<storeClients, rc>>
    /\ UNCHANGED <<clockVars, parseVars, monVars, dnsVars, appVars>>

ClearAllReconnectionHistory ==
    /\ attempts' = [c \in ReconClients |-> NoRecord]
    /\ lastCall' = [lastCall EXCEPT !.hist = [c \in ReconClients |-> NoHistory]]
    /\ UNCHANGED <<storeClients, rc>>
    /\ UNCHANGED <<clockVars, parseVars, monVars, dnsVars, appVars>>

\* ConfigStorageService.delete_client
DeleteClient(c) ==
    /\ c \in storeClients
    /\ Unregistered(c)
    /\ storeClients' = storeClients \ {c}
    /\ UNCHANGED <<attempts, rc, lastCall>>
    /\ UNCHANGED <<clockVars, parseVars, monVars, appVars>>

TickRecon ==
    /\ \E d \in {RECONNECT_COOLDOWN, RECONNECT_COOLDOWN + 1} : Advance(d, MaxTicks)
    /\ UNCHANGED <<parseVars, monVars, dnsVars, reconVars, appVars>>

InitRecon ==
    /\ attempts = [c \in ReconClients |-> NoRecord]
    /\ storeClients = ReconClients
    /\ rc = [t \in RcThreads |-> IdleRc]
    /\ lastCall = [dns |-> NoCall, manual |-> NoCall,
                   hist |-> [c \in ReconClients |-> NoHistory],
                   status |-> NoStatusCall]

NextReconnect ==
    \/ \E c \in ReconClients : HandleDnsChange(c)
    \/ \E c \in ReconClients : ManualReconnectClient(c)
    \/ \E t \in RcThreads, o \in StepOutcomes : RcDeactivate(t, o)
    \/ \E t \in RcThreads, o \in StepOutcomes : RcActivate(t, o)
    \/ \E t \in RcThreads, o \in {"ok", "raises"} : RcMarkActive(t, o)
    \/ TrackUpdate
    \/ GetReconnectionStatus
    \/ \E c \in ReconClients : ClearReconnectionHistory(c)
    \/ ClearAllReconnectionHistory
    \/ \E c \in ReconClients : DeleteClient(c)
    \/ TickRecon

\* No client with an endpoint hostname is stored, the application's start is
\* not part of the run and the DNS monitoring thread does not run.
NotBooted == [done |-> FALSE, callback |-> FALSE, registered |-> {}, loopStarted |-> FALSE]

\* lookedAt: for each hostname, when the thread's checks last called
\* resolve_hostname for it (line 131), whatever the answer was
LoopOff == [pc |-> "off", queue |-> <<>>, dropped |-> 0,
            lookedAt |-> [h \in Hostnames |-> Nothing]]

\* No call of check_hostname_changes is under way.  owed: the overwrites
\* of a stored address by a different one that the call under way made.
CkIdle == [pc |-> "idle", idx |-> 0, size |-> 0, t |-> 0, host |-> "", client |-> "",
           acc |-> <<>>, owed |-> {}]

InitApp ==
    /\ boot = NotBooted
    /\ endpoints = [c \in ClientIds |-> "none"]
    /\ dnsLoop = LoopOff
    /\ ck = CkIdle

(***************************************************************************)
(* SpecCheck: the handshake loop's poll of one client, over every listing. *)
(* SpecMonitor: the handshake loop and the monitoring test running         *)
(* concurrently while peers, clock and status change.                      *)
(***************************************************************************)
NextCheck ==
    \/ HsBegin
    \/ CaStart("hs")
    \/ CaStep("hs")
    \/ \E o \in SendOutcomes : CaSend("hs", o)
    \/ HsUpdate
    \/ ApiClientsSync

InitCheck ==
    /\ InitClock
    /\ InitParse
    /\ InitListing
    /\ InitDns
    /\ InitRecon
    /\ InitApp

SpecCheck == InitCheck /\ [][NextCheck]_vars

NextMonitor ==
    \/ HsBegin
    \/ ReqBegin
    \/ \E t \in MonThreads : CaStart(t)
    \/ \E t \in MonThreads : CaStep(t)
    \/ \E t \in MonThreads, o \in SendOutcomes : CaSend(t, o)
    \/ ReqEnd
    \/ HsUpdate
    \/ WgHandshake
    \/ ApiClientsSync
    \/ TickMonitor

InitMon ==
    /\ InitClock
    /\ InitParse
    /\ InitMonitor
    /\ InitDns
    /\ InitRecon
    /\ InitApp

SpecMonitor == InitMon /\ [][NextMonitor]_vars

(***************************************************************************)
(* SpecParse: the duration parser applied to every input, as               *)
(* check_interface applies it and as the handshake route applies it        *)
(* (routes/main.py check_handshake, lines 811-834: the same code without   *)
(* the "Now" case).                                                        *)
(***************************************************************************)
InitParseInputs == hsText \in ParserInputs /\ hsParsed = NotParsed

MonitorParses ==
    /\ ~hsParsed.done
    /\ hsText.kind # "zero"
    /\ hsParsed' = [done |-> TRUE, ok |-> ParseHandshake(hsText).ok,
                    secs |-> ParseHandshake(hsText).secs]
    /\ UNCHANGED <<hsText, clockVars, monVars, dnsVars, reconVars, appVars>>

RouteParses ==
    /\ ~hsParsed.done
    /\ hsParsed' = [done |-> TRUE, ok |-> ParseDuration(hsText).ok,
                    secs |-> ParseDuration(hsText).secs]
    /\ UNCHANGED <<hsText, clockVars, monVars, dnsVars, reconVars, appVars>>

NextParse == MonitorParses \/ RouteParses

InitParser ==
    /\ InitClock
    /\ InitParseInputs
    /\ InitMonitor
    /\ InitDns
    /\ InitRecon
    /\ InitApp

SpecParse == InitParser /\ [][NextParse]_vars

(***************************************************************************)
(* Claims about the duration parser and check_interface                    *)
(***************************************************************************)
\* The grammar of the claim: "Now", "<N> <unit>s ago", and two such units
\* joined by a comma.
InGrammar(text) ==
    \/ text.kind = "now"
    \/ /\ text.kind = "ago"
       /\ Len(text.parts) = 1
       /\ text.parts[1].isnum
       /\ text.parts[1].plural
    \/ /\ text.kind = "ago"
       /\ Len(text.parts) = 2
       /\ text.parts[1].isnum
       /\ text.parts[2].isnum
       /\ text.parts[1].unit # text.parts[2].unit

RECURSIVE ExpectedSeconds(_, _)
ExpectedSeconds(parts, i) ==
    IF i > Len(parts) THEN 0
    ELSE parts[i].n * UnitSeconds(parts[i].unit) + ExpectedSeconds(parts, i + 1)

\* C6: for every string of the supported grammar the parsed elapsed time is
\* the sum over the units present of N times the unit's length in seconds.
C6_ParsedSecondsAreTheSum ==
    (hsParsed.done /\ InGrammar(hsText)) =>
        (hsParsed.ok /\ hsParsed.secs = ExpectedSeconds(hsText.parts, 1))

\* The peer blocks of the listing whose handshake text the parser accepted.
ParsedPeers ==
    {i \in 1..Len(wgListing) :
        wgListing[i].hs.kind = "ago" /\ ParseHandshake(wgListing[i].hs).ok}

\* C7: check_interface classifies a peer connected when the time since its
\* parsed handshake is at most DISCONNECT_THRESHOLD and disconnected when it
\* is greater; a handshake reported as exactly 30 minutes ago is connected.
C7_ConnectedUpToThreshold ==
    (mon["hs"].pc # "idle" /\ wgUp) =>
        \A i \in ParsedPeers :
            mon["hs"].first[i].conn <=>
                (ParseHandshake(wgListing[i].hs).secs <= DISCONNECT_THRESHOLD * 60)

\* A handshake line that is missing or that the parser cannot make sense of.
FailOpenText(hs) ==
    \/ hs.kind = "none"
    \/ hs.kind = "other"
    \/ hs.kind = "ago" /\ ~ParseHandshake(hs).ok

\* What a result of check_interface must be for the current listing: every
\* listed peer is in it, fail-open peers are connected, and every other
\* parsed peer is classified by its own handshake.
FailOpenResult(r) ==
    /\ Len(r) = Len(wgListing)
    /\ \A i \in 1..Len(wgListing) :
         /\ r[i].key = wgListing[i].key
         /\ FailOpenText(wgListing[i].hs) => r[i].conn
         /\ (i \in ParsedPeers /\
                ParseHandshake(wgListing[i].hs).secs < DISCONNECT_THRESHOLD * 60)
              => r[i].conn
         /\ (i \in ParsedPeers /\
                ParseHandshake(wgListing[i].hs).secs > DISCONNECT_THRESHOLD * 60)
              => ~r[i].conn

C3_OneAlertPerCooldown ==
    \A p \in PeerKeys : ~alertLog[p].tooSoon

\* C9: when send_alert fails the peer's last-alert time is not updated, and
\* the next handshake-loop poll in which the peer is still disconnected
\* dispatches the alert again.
C9_FailedAlertRetriedNextPoll ==
    /\ \A p \in PeerKeys : retryOwed[p].owed => retryOwed[p].kept
    /\ pollInfo.owedDisc \subseteq pollInfo.dispatched

(***************************************************************************)
(* SpecDns: registrations, unregistrations and checks of the resolver.     *)
(***************************************************************************)
InitResolver ==
    /\ InitClock
    /\ InitParse
    /\ InitMonitor
    /\ InitDns
    /\ InitRecon
    /\ InitApp

SpecDns == InitResolver /\ [][NextDns]_vars

\* The hostname, previous and current address of every event the last check
\* returned.
ReturnedChanges ==
    {[hostname |-> changes[i].hostname, previous_ip |-> changes[i].previous_ip,
      current_ip |-> changes[i].current_ip] : i \in 1..Len(changes)}

C5_UnregisterRemovesAll ==
    \A c \in ClientIds :
        dnsGhost.unreg[c].done =>
            /\ HostnamesOf(client_hostnames, c) = {}
            /\ ~dnsGhost.unreg[c].referenced

\* A client with two hostnames was unregistered and a check has looked up
\* the remaining client's hostname since.
C5_Witness ==
    /\ dnsGhost.unreg["c1"].done
    /\ dnsGhost.unreg["c1"].had = 2
    /\ dnsGhost.unreg["c1"].checked

(***************************************************************************)
(* SpecReconnect: DNS-triggered and manual reconnects of a client, the     *)
(* administrative operations and the clock.                                *)
(***************************************************************************)
InitReconnect ==
    /\ InitClock
    /\ InitParse
    /\ InitMonitor
    /\ InitDns
    /\ InitRecon
    /\ InitApp

SpecReconnect == InitReconnect /\ [][NextReconnect]_vars

(***************************************************************************)
(* SpecTracking: the same operations with the status request running as    *)
(* the interpreter runs it, in two steps that other threads may separate.  *)
(***************************************************************************)
InitTracking ==
    /\ InitClock
    /\ InitParse
    /\ InitMonitor
    /\ InitDns
    /\ InitRecon
    /\ InitApp

NextTracking ==
    \/ \E c \in ReconClients : HandleDnsChange(c)
    \/ \E t \in RcThreads, o \in StepOutcomes : RcDeactivate(t, o)
    \/ \E t \in RcThreads, o \in StepOutcomes : RcActivate(t, o)
    \/ \E t \in RcThreads, o \in {"ok", "raises"} : RcMarkActive(t, o)
    \/ TrackUpdate
    \/ StatusBegin
    \/ StatusNext
    \/ \E c \in ReconClients : ClearReconnectionHistory(c)
    \/ ClearAllReconnectionHistory
    \/ TickRecon

SpecTracking == InitTracking /\ [][NextTracking]_vars

(***************************************************************************)
(* Application start: init_dns_monitoring_and_auto_reconnect, called by    *)
(* create_app before the handshake loop is started.                        *)
(***************************************************************************)
\* What the Endpoint line of a stored client's config names: no client is
\* stored under that id, an IP address, or a hostname.
EndpointKinds == {"none", "ip"} \cup Hostnames

\* extract_hostname_from_config: the hostname unless it is an IP address
ExtractHostname(endpoint) == IF endpoint \in Hostnames THEN endpoint ELSE NoAddr

\* The methods class DNSResolver defines.
ResolverMethods ==
    {"extract_hostname_from_config", "_is_ip_address", "resolve_hostname",
     "register_client_hostname", "unregister_client_hostname",
     "set_dns_change_callback", "check_hostname_changes", "get_hostname_status",
     "start_monitoring", "_trigger_reconnections"}

\* The calls in the try block of init_dns_monitoring_and_auto_reconnect,
\* in order (lines 225, 228, 231, 234).
StartupCalls ==
    << [on |-> "DNSResolver", name |-> "set_dns_change_callback"],
       [on |-> "DNSResolver", name |-> "set_config_storage"],
       [on |-> "app", name |-> "register_existing_ddns_clients"],
       [on |-> "DNSResolver", name |-> "start_monitoring"] >>

\* A call of a method the class does not define raises AttributeError; the
\* except clause of line 238 ends the function.  The calls made before that.
StartupRan ==
    LET missing == {i \in 1..Len(StartupCalls) :
                       /\ StartupCalls[i].on = "DNSResolver"
                       /\ StartupCalls[i].name \notin ResolverMethods}
        made == {i \in 1..Len(StartupCalls) : \A j \in missing : i < j}
    IN  {StartupCalls[i].name : i \in made}

\* list_clients in the order of the store
StoredOrder == <<"c1", "c2">>

\* register_existing_ddns_clients: every stored client whose config names a
\* hostname is registered with the resolver.
RECURSIVE RegisterExisting(_, _)
RegisterExisting(reg, i) ==
    IF i > Len(StoredOrder) THEN reg
    ELSE LET c == StoredOrder[i]
             h == ExtractHostname(endpoints[c])
         IN  RegisterExisting(IF h # NoAddr THEN RegisterHostname(reg, c, h) ELSE reg,
                              i + 1)

LoopStarted == [LoopOff EXCEPT !.pc = "check"]

Startup ==
    /\ ~boot.done
    /\ LET registers == "register_existing_ddns_clients" \in StartupRan
           starts == "start_monitoring" \in StartupRan
       IN  /\ boot' = [done |-> TRUE,
                       callback |-> "set_dns_change_callback" \in StartupRan,
                       registered |-> IF registers
                                      THEN {c \in ClientIds :
                                              ExtractHostname(endpoints[c]) # NoAddr}
                                      ELSE {},
                       loopStarted |-> starts]
           /\ client_hostnames' = IF registers
                                  THEN RegisterExisting(client_hostnames, 1)
                                  ELSE client_hostnames
           /\ dnsLoop' = IF starts THEN LoopStarted ELSE dnsLoop
    /\ UNCHANGED <<endpoints, ck, resolved_ips, last_checks, changes, dnsGhost>>
    /\ UNCHANGED <<clockVars, parseVars, monVars, reconVars>>

\* Any set of stored clients and endpoints.
InitStartup ==
    /\ InitClock
    /\ InitParse
    /\ InitMonitor
    /\ InitDns
    /\ InitRecon
    /\ boot = NotBooted
    /\ endpoints \in [ClientIds -> EndpointKinds]
    /\ dnsLoop = LoopOff
    /\ ck = CkIdle

\* Once the application runs, the routes register and unregister hostnames
\* (ConfigStorageService lines 176 and 331) and time passes.  The steps of
\* the monitoring thread are those of SpecDnsLoop; it takes them only when
\* start_monitoring has started it.
NextStartup ==
    \/ Startup
    \/ boot.done /\ \E c \in ClientIds, h \in Hostnames : RegisterClientHostname(c, h)
    \/ boot.done /\ \E c \in ClientIds : UnregisterClientHostname(c)
    \/ boot.done /\ TickDns

SpecStartup == InitStartup /\ [][NextStartup]_vars

(***************************************************************************)
(* The DNS monitoring thread, monitor_dns, as start_monitoring starts it:  *)
(* check_hostname_changes, then the callback handle_dns_changes for the    *)
(* changes found, each handled by handle_dns_change in this same thread,   *)
(* then a sleep of one minute.                                             *)
(***************************************************************************)
MaxLoopTicks == 10    \* sleeps of the DNS monitoring thread in one run

\* lines 190-194: the check; with changes (and a callback registered,
\* line 213) the thread enters the callback, else it sleeps.
DnsLoopCheck ==
    /\ dnsLoop.pc = "check"
    /\ \E answers \in NameService(LookedUp) : CheckedHostnames(answers)
    /\ LET looked == [h \in Hostnames |->
                         IF h \in LookedUp THEN Some(now) ELSE dnsLoop.lookedAt[h]]
       IN  dnsLoop' = IF changes' # <<>> /\ boot.callback
                      THEN [pc |-> "callback", queue |-> changes', dropped |-> 0,
                            lookedAt |-> looked]
                      ELSE [pc |-> "sleep", queue |-> <<>>, dropped |-> 0,
                            lookedAt |-> looked]
    /\ UNCHANGED <<boot, endpoints, ck>>
    /\ UNCHANGED <<clockVars, parseVars, monVars, reconVars>>

\* get_client reads the store's database and has no exception handler
StoreOutcomes == {"ok", "raises"}

\* __init__.py lines 221-222: the next change of the list is handed to
\* handle_dns_change.  When get_client raises, the exception leaves
\* handle_dns_change and the for loop of line 221, is logged by
\* _trigger_reconnections (line 217), and the thread goes to sleep.
DnsLoopHandle(store) ==
    LET e == Head(dnsLoop.queue)
        c == e.client_id
        g == ShouldAttemptReconnection(attempts[c], now)
    IN  /\ dnsLoop.pc = "callback"
        /\ rc["dns"].pc = "idle"
        /\ dnsLoop.queue # <<>>
        /\ IF g.allow /\ store = "raises"
           THEN /\ attempts' = [attempts EXCEPT ![c] = g.rec]
                /\ lastCall' = [lastCall EXCEPT !.dns =
                      [NoCall EXCEPT !.called = TRUE, !.client = c,
                                     !.gate.allowed = TRUE, !.ret = "raised"]]
                /\ dnsLoop' = [dnsLoop EXCEPT !.pc = "sleep", !.queue = <<>>,
                                              !.dropped = Len(Tail(dnsLoop.queue))]
                /\ UNCHANGED <<storeClients, rc>>
           ELSE /\ HandledDnsChange(c)
                /\ dnsLoop' = [dnsLoop EXCEPT !.queue = Tail(@)]
        /\ UNCHANGED <<boot, endpoints, ck>>
        /\ UNCHANGED <<clockVars, parseVars, monVars, dnsVars>>

\* The callback is over, every change was handled: lines 216 and 197.
\* (No other thread clears the reconnection history here, so the tracking
\* update of line 190 finds its record.)
DnsLoopReturn ==
    /\ dnsLoop.pc = "callback"
    /\ rc["dns"].pc = "idle"
    /\ dnsLoop.queue = <<>>
    /\ dnsLoop' = [dnsLoop EXCEPT !.pc = "sleep"]
    /\ UNCHANGED <<boot, endpoints, ck>>
    /\ UNCHANGED <<clockVars, parseVars, monVars, dnsVars, reconVars>>

\* time.sleep(60), lines 197 and 201
DnsLoopWake ==
    /\ dnsLoop.pc = "sleep"
    /\ Advance(1, MaxLoopTicks)
    /\ dnsLoop' = [dnsLoop EXCEPT !.pc = "check"]
    /\ UNCHANGED <<boot, endpoints, ck>>
    /\ UNCHANGED <<parseVars, monVars, dnsVars, reconVars>>

\* The thread runs, the callback of line 225 is registered, and client c1
\* is registered with two hostnames.
InitDnsLoop ==
    /\ InitClock
    /\ InitParse
    /\ InitMonitor
    /\ resolved_ips = [h \in Hostnames |-> NoAddr]
    /\ last_checks = [h \in Hostnames |-> Nothing]
    /\ changes = <<>>
    /\ client_hostnames = RegisterHostname(RegisterHostname(<<>>, "c1", "h1"), "c1", "h2")
    /\ dnsGhost = [seenReg |-> [h \in Hostnames |-> NoAddr],
                   seenNew |-> [h \in Hostnames |-> NoAddr],
                   expectedReg |-> {}, expectedNew |-> {}, failed |-> {},
                   unreg |-> [c \in ClientIds |-> NotUnregistered]]
    /\ InitRecon
    /\ boot = [done |-> TRUE, callback |-> TRUE, registered |-> {"c1"},
               loopStarted |-> TRUE]
    /\ endpoints = [c \in ClientIds |-> IF c = "c1" THEN "h1" ELSE "none"]
    /\ dnsLoop = LoopStarted
    /\ ck = CkIdle

\* The steps of the one thread monitor_dns
DnsLoopStep ==
    \/ DnsLoopCheck
    \/ \E store \in StoreOutcomes : DnsLoopHandle(store)
    \/ \E o \in StepOutcomes \cup {"hangs"} : RcDeactivate("dns", o)
    \/ \E o \in StepOutcomes \cup {"hangs"} : RcActivate("dns", o)
    \/ \E o \in {"ok", "raises"} : RcMarkActive("dns", o)
    \/ TrackUpdate
    \/ DnsLoopReturn
    \/ DnsLoopWake

NextDnsLoop == DnsLoopStep

SpecDnsLoop == InitDnsLoop /\ [][NextDnsLoop]_vars

(***************************************************************************)
(* check_hostname_changes step by step, with the request threads that      *)
(* register and unregister hostnames running between its steps.  The call  *)
(* iterates _client_hostnames.items() and blocks in resolve_hostname for   *)
(* each due hostname; the dict iterator raises RuntimeError when the dict  *)
(* has changed size since the iteration began.                             *)
(***************************************************************************)
\* lines 122-125: changes = [], now = datetime.now(), the iteration begins
CkStart ==
    /\ ck.pc = "idle"
    /\ ck' = [CkIdle EXCEPT !.pc = "iter", !.idx = 1,
                            !.size = Len(client_hostnames), !.t = now]
    /\ UNCHANGED <<boot, endpoints, dnsLoop>>
    /\ UNCHANGED <<clockVars, parseVars, monVars, dnsVars, reconVars>>

\* line 125, the iterator's next item.  A dict of another size than at the
\* start: RuntimeError, which leaves check_hostname_changes with its list
\* of changes and is caught in monitor_dns (lines 199-201).  No item left:
\* the list is returned (line 155) and handed to the callback (lines 191-
\* 194, 213-214).  Else lines 127-129: a hostname checked less than
\* DNS_CHECK_INTERVAL ago is skipped, any other is resolved.
CkNext ==
    /\ ck.pc = "iter"
    /\ IF Len(client_hostnames) # ck.size
       THEN /\ ck' = [CkIdle EXCEPT !.owed = ck.owed]
            /\ changes' = <<>>
       ELSE IF ck.idx > ck.size
       THEN /\ ck' = [CkIdle EXCEPT !.owed = IF boot.callback THEN {} ELSE ck.owed]
            /\ changes' = ck.acc
       ELSE LET e == client_hostnames[ck.idx]
            IN  /\ ck' = IF DueForCheck(last_checks, e.host, ck.t)
                         THEN [ck EXCEPT !.pc = "resolve", !.host = e.host,
                                         !.client = e.client]
                         ELSE [ck EXCEPT !.idx = @ + 1]
                /\ UNCHANGED changes
    /\ UNCHANGED <<client_hostnames, resolved_ips, last_checks, dnsGhost>>
    /\ UNCHANGED <<boot, endpoints, dnsLoop>>
    /\ UNCHANGED <<clockVars, parseVars, monVars, reconVars>>

\* lines 131-153, once resolve_hostname has returned: a failed lookup
\* goes on with the next item; else the check time and the address are
\* stored under the hostname and a change is appended to the list.
CkResolved(answer) ==
    LET h == ck.host
        prev == resolved_ips[h]
        event == [client_id |-> ck.client, hostname |-> h, previous_ip |-> prev,
                  current_ip |-> answer, timestamp |-> ck.t]
    IN  /\ ck.pc = "resolve"
        /\ IF ~LookupSucceeded(answer)
           THEN /\ ck' = [ck EXCEPT !.pc = "iter", !.idx = @ + 1,
                                    !.host = "", !.client = ""]
                /\ UNCHANGED <<resolved_ips, last_checks>>
           ELSE /\ last_checks' = [last_checks EXCEPT ![h] = Some(ck.t)]
                /\ resolved_ips' = [resolved_ips EXCEPT ![h] = answer]
                /\ ck' = [ck EXCEPT
                            !.pc = "iter", !.idx = @ + 1, !.host = "", !.client = "",
                            !.acc = IF IsChange(prev, answer) THEN Append(@, event) ELSE @,
                            !.owed = IF prev # NoAddr /\ prev # answer
                                     THEN @ \cup {[hostname |-> h, previous_ip |-> prev,
                                                   current_ip |-> answer]}
                                     ELSE @]
        /\ UNCHANGED <<client_hostnames, changes, dnsGhost>>
        /\ UNCHANGED <<boot, endpoints, dnsLoop>>
        /\ UNCHANGED <<clockVars, parseVars, monVars, reconVars>>

\* The registry is resized at most once while a call iterates it: the
\* iterator's next step then raises.
CkSameSize == ck.pc = "idle" \/ Len(client_hostnames) = ck.size

\* The application has started and the callback is registered.
InitCheckSteps ==
    /\ InitClock
    /\ InitParse
    /\ InitMonitor
    /\ InitDns
    /\ InitRecon
    /\ boot = [done |-> TRUE, callback |-> TRUE, registered |-> {},
               loopStarted |-> TRUE]
    /\ endpoints = [c \in ClientIds |-> "none"]
    /\ dnsLoop = LoopOff
    /\ ck = CkIdle

NextCheckSteps ==
    \/ CkStart
    \/ CkNext
    \/ \E answer \in Addrs \cup {NoAddr} : CkResolved(answer)
    \/ CkSameSize /\ \E c \in ClientIds, h \in Hostnames : RegisterClientHostname(c, h)
    \/ CkSameSize /\ \E c \in ClientIds : UnregisterClientHostname(c)
    \/ TickDns

SpecCheckSteps == InitCheckSteps /\ [][NextCheckSteps]_vars

(***************************************************************************)
(* SpecRace: the handshake loop polling a client whose peer keeps          *)
(* handshaking, while handle_dns_change reconnects that client in another  *)
(* thread.  The peer is never disconnected, so check_and_alert has no      *)
(* alert to send.                                                          *)
(***************************************************************************)
InitRace ==
    /\ InitClock
    /\ InitParse
    /\ InitMonitor
    /\ InitDns
    /\ InitRecon
    /\ InitApp

NextRace ==
    \/ HsBegin
    \/ CaStart("hs")
    \/ CaStep("hs")
    \/ HsUpdate
    \/ \E c \in ReconClients : HandleDnsChange(c)
    \/ \E o \in StepOutcomes : RcDeactivate("dns", o)
    \/ \E o \in StepOutcomes : RcActivate("dns", o)
    \/ \E o \in {"ok", "raises"} : RcMarkActive("dns", o)
    \/ TrackUpdate
    \/ TickRecon

SpecRace == InitRace /\ [][NextRace]_vars

\* C1: for a client whose reconnects all fail, handle_dns_change makes at
\* most MAX_RECONNECT_ATTEMPTS attempts before the gate denies, the gate
\* denies while less than RECONNECT_COOLDOWN has elapsed since the last
\* attempt, and permits a further attempt once RECONNECT_COOLDOWN has elapsed.
C1_GateFollowsCooldown ==
    /\ \A c \in ReconClients : attempts[c].count <= MAX_RECONNECT_ATTEMPTS
    /\ (lastCall.dns.called /\ lastCall.dns.gate.prior) =>
          (lastCall.dns.gate.allowed <=> lastCall.dns.gate.due)

\* C2: after a reconnect that reports success, triggered by a DNS change or
\* by the manual route, the client's attempt count is 0 and its last-success
\* timestamp is set.
C2_SuccessResetsTracking ==
    [][\A t \in RcThreads :
          (rc[t].pc # "idle" /\ rc'[t].pc = "idle" /\ lastCall'[t].result) =>
              /\ attempts'[rc[t].client].has
              /\ attempts'[rc[t].client].count = 0
              /\ attempts'[rc[t].client].last_success.has]_vars

ReconnectSteps == <<"deactivate", "activate", "mark_active">>

\* The calls are a prefix of deactivate, activate, mark-active, and a failed
\* deactivate or activate ended the reconnect there with False.
CallsInOrder(calls, outs, finished, result) ==
    /\ Len(calls) <= 3
    /\ calls = SubSeq(ReconnectSteps, 1, Len(calls))
    /\ (finished /\ outs.deactivate \notin {"ok", "none"}) =>
          (calls = <<"deactivate">> /\ ~result)
    /\ (finished /\ outs.activate \notin {"ok", "none"}) =>
          (calls = <<"deactivate", "activate">> /\ ~result)

\* C8 as stated: _reconnect_client calls deactivate, activate and mark-active
\* in that order, each at most once, stops with False at a failed deactivate
\* or activate, and returns True when deactivate and activate both succeed.
C8_ReconnectSequence ==
    \A t \in RcThreads :
        /\ CallsInOrder(rc[t].calls, rc[t].outs, FALSE, FALSE)
        /\ (lastCall[t].attempted /\ lastCall[t].returned) =>
              /\ CallsInOrder(lastCall[t].calls, lastCall[t].outs, TRUE, lastCall[t].result)
              /\ (lastCall[t].outs.deactivate = "ok" /\ lastCall[t].outs.activate = "ok")
                    => lastCall[t].result

\* C8 amended: the same order and abort rules; it returns True exactly when
\* deactivate, activate and the store's status update all succeed, and False
\* when the status update raises.
C8_ReconnectSequenceStoreOk ==
    \A t \in RcThreads :
        /\ CallsInOrder(rc[t].calls, rc[t].outs, FALSE, FALSE)
        /\ (lastCall[t].attempted /\ lastCall[t].returned) =>
              /\ CallsInOrder(lastCall[t].calls, lastCall[t].outs, TRUE, lastCall[t].result)
              /\ lastCall[t].result <=>
                    (/\ lastCall[t].outs.deactivate = "ok"
                     /\ lastCall[t].outs.activate = "ok"
                     /\ lastCall[t].outs.mark = "ok")
              /\ lastCall[t].result => lastCall[t].calls = ReconnectSteps

\* A reconnect went through all three steps and returned True.
C8_Witness ==
    /\ lastCall.dns.attempted
    /\ lastCall.dns.returned
    /\ lastCall.dns.result
    /\ lastCall.dns.calls = ReconnectSteps

\* C11: handle_dns_change returns True exactly when it invoked
\* _reconnect_client, whatever that reconnect returned, and False exactly
\* when the gate denied the attempt or the client was not in the store.
C11_TrueIffReconnectInvoked ==
    (lastCall.dns.called /\ rc["dns"].pc = "idle") =>
        /\ lastCall.dns.ret = "true" <=> lastCall.dns.attempted
        /\ lastCall.dns.ret = "false" <=>
              (~lastCall.dns.gate.allowed \/ ~lastCall.dns.found)

\* C16: the tracking update of handle_dns_change is atomic with respect to
\* clear_reconnection_history and get_reconnection_status called meanwhile:
\* every operation completes without an error.
C16_TrackingUpdateCompletes ==
    /\ lastCall.dns.called => lastCall.dns.ret # "raised"
    /\ ~lastCall.status.raised

\* C12: when the lookup of a hostname fails, check_hostname_changes keeps
\* that hostname's stored address and last-check time, returns no event for
\* it, still processes every other registered hostname that was due in the
\* same call, and the hostname is due again at the next check.
C12_FailedLookupSkipsOnlyThatHostname ==
    [][now' = now =>
         \A h \in dnsGhost'.failed :
            /\ resolved_ips'[h] = resolved_ips[h]
            /\ last_checks'[h] = last_checks[h]
            /\ \A i \in 1..Len(changes') : changes'[i].hostname # h
            /\ DueForCheck(last_checks', h, now')
            /\ \A g \in RegisteredHosts(client_hostnames) \ dnsGhost'.failed :
                  DueForCheck(last_checks, g, now) =>
                     /\ last_checks'[g] = Some(now)
                     /\ resolved_ips'[g] # NoAddr]_vars

\* a check in which h1's lookup failed while its address from an earlier
\* check is still stored, and h2 was resolved in the same call
C12_Witness ==
    /\ dnsGhost.failed = {"h1"}
    /\ resolved_ips["h1"] # NoAddr
    /\ last_checks["h1"].has /\ last_checks["h1"].t < now
    /\ last_checks["h2"] = Some(now)

\* C19: the handshake loop keeps verifying a client it has marked inactive:
\* a poll that starts while the client is inactive and its peer has just
\* handshaken again checks the interface, and a poll whose check found a
\* connected peer writes the status active.
C19_InactiveClientVerifiedAgain ==
    [][/\ ( /\ mon["hs"].pc = "idle"
            /\ mon'["hs"].pc # "idle" \/ pollInfo' # pollInfo
            /\ clientStatus = "inactive"
            /\ wgUp
            /\ \E i \in 1..Len(wgListing) : wgListing[i].hs = NowText )
          => mon'["hs"].pc # "idle"
       /\ ( /\ mon["hs"].pc = "loop"
            /\ mon'["hs"].pc = "idle"
            /\ \E i \in 1..Len(mon["hs"].first) : mon["hs"].first[i].conn )
          => clientStatus' = "active"]_vars

\* C18: once the application has started, the change callback is
\* registered, every stored client whose config names an endpoint hostname
\* is registered with the resolver, and the DNS monitoring thread runs.
C18_StartupStartsDnsMonitoring ==
    boot.done =>
        /\ boot.callback
        /\ boot.registered = {c \in ClientIds : ExtractHostname(endpoints[c]) # NoAddr}
        /\ boot.loopStarted
        /\ dnsLoop.pc # "off"

\* C13: an exception raised while one change event of a tick is handled
\* does not prevent the remaining change events of that tick from being
\* processed: no event of the list is left unhandled.
C13_RemainingEventsProcessed ==
    dnsLoop.dropped = 0

\* C14: the reconnect a DNS change triggers is not run inline in the DNS
\* polling thread: while it runs, however long, that thread is not held in
\* the callback and can go on to its later ticks.
C14_ReconnectNotInline ==
    rc["dns"].pc # "idle" => dnsLoop.pc # "callback"

\* C15: an external command that never returns does not wedge the polling
\* loop that invoked it: the loop's thread still has a step to take.
C15_HungCommandLeavesLoopRunning ==
    rc["dns"].pc = "hung" => ENABLED DnsLoopStep

\* C17: a change whose event was denied by the gate, or whose reconnect
\* failed, is not lost: a tick of the DNS loop at which the gate would
\* allow the client again does not end without a reconnect attempt, even
\* though no hostname's address changed again.
C17_OwedChangeRetried ==
    [][( /\ dnsLoop.pc = "check"
         /\ dnsLoop'.pc = "sleep"
         /\ lastCall.dns.called
         /\ lastCall.dns.ret # "raised"
         /\ \/ ~lastCall.dns.gate.allowed
            \/ lastCall.dns.attempted /\ ~lastCall.dns.result
         /\ lastCall.dns.client \in storeClients )
       => ~ShouldAttemptReconnection(attempts[lastCall.dns.client], now).allow]_vars

\* C20: a reconnect that returned success leaves the client active: once
\* the reconnect and the handshake-loop poll running beside it are both
\* over, the tunnel is not up with the stored status inactive.
C20_SuccessfulReconnectLeavesActive ==
    ( /\ lastCall.dns.called
      /\ lastCall.dns.returned
      /\ lastCall.dns.result
      /\ rc["dns"].pc = "idle"
      /\ mon["hs"].pc = "idle"
      /\ wgUp )
    => clientStatus = "active"

\* C21: get_reconnection_status is read-only: a call changes no client's
\* attempt count, last-attempt time or last-success time, and does not
\* change what _should_attempt_reconnection answers next for any client.
C21_StatusQueryReadOnly ==
    [][GetReconnectionStatus =>
         /\ attempts' = attempts
         /\ \A c \in ReconClients :
               ShouldAttemptReconnection(attempts'[c], now').allow
                  = ShouldAttemptReconnection(attempts[c], now).allow]_vars

\* C22: the cooldown gate is uniform in the attempt count: for a client
\* with a record, _should_attempt_reconnection allows exactly when at least
\* RECONNECT_COOLDOWN has elapsed since the last attempt, for count below
\* MAX_RECONNECT_ATTEMPTS and for count at MAX_RECONNECT_ATTEMPTS alike.
C22_GateUniformInCount ==
    \A c \in ReconClients :
        (attempts[c].has /\ attempts[c].last_attempt.has) =>
            ( ShouldAttemptReconnection(attempts[c], now).allow
                <=> now - attempts[c].last_attempt.t >= RECONNECT_COOLDOWN )

\* C30: what is_peer_connected and get_connection_status report for a peer
\* agrees with the classification check_interface made of that peer at the
\* same instant, also at exactly DISCONNECT_THRESHOLD and for peers without
\* a recorded handshake.
C30_TrackerAgreesWithCheck ==
    (mon["hs"].pc # "idle" /\ wgUp) =>
        \A i \in 1..Len(mon["hs"].first) :
            LET e == mon["hs"].first[i]
                status == GetConnectionStatus(last_handshakes, now * 60)
            IN  /\ IsPeerConnected(last_handshakes, e.key, now * 60) = e.conn
                /\ e.key \in DOMAIN status
                /\ status[e.key].connected = e.conn

\* C24: every invocation of _reconnect_client logs an attempt-start event
\* and, before it returns, a terminal event: a success event when it
\* returns True, a failure event when it returns False, also when
\* deactivate or activate reported an error.
C24_AuditHasTerminalEvent ==
    \A t \in RcThreads :
        (lastCall[t].attempted /\ lastCall[t].returned) =>
            LET log == lastCall[t].audit
            IN  /\ Len(log) >= 2
                /\ log[1] = "reconnect_attempt"
                /\ log[Len(log)] = IF lastCall[t].result THEN "reconnect_success"
                                   ELSE "reconnect_failed"

\* C26: in every reachable state each client's attempt count is between 0
\* and MAX_RECONNECT_ATTEMPTS, whatever the sequence of handle_dns_change,
\* manual reconnects, status queries and history clears and their outcomes.
C26_CountWithinBounds ==
    \A c \in ReconClients :
        /\ attempts[c].count >= 0
        /\ attempts[c].count <= MAX_RECONNECT_ATTEMPTS

\* the count stands at MAX_RECONNECT_ATTEMPTS and a further change event
\* has been denied by the gate
C26_Witness ==
    /\ attempts["c1"].count = MAX_RECONNECT_ATTEMPTS
    /\ lastCall.dns.called
    /\ ~lastCall.dns.gate.allowed
    /\ lastCall.hist["c1"].t.has
    /\ now > lastCall.hist["c1"].t.t

\* C27: when handle_dns_change returns False, because the gate denied the
\* attempt or the client is not in the store, the client's attempt record
\* is as it was before the call and no tunnel operation was started.
C27_DeniedCallChangesNothing ==
    [][\A c \in ReconClients :
          (HandleDnsChange(c) /\ lastCall'.dns.ret = "false") =>
             /\ attempts'[c] = attempts[c]
             /\ rc' = rc
             /\ wgUp' = wgUp]_vars

\* C28: registering a hostname for one client never ends the monitoring of
\* another client: every other client is registered with the same
\* hostnames after register_client_hostname as before it.
C28_RegisterKeepsOtherClients ==
    [][\A c \in ClientIds, h \in Hostnames :
          RegisterClientHostname(c, h) =>
             \A d \in ClientIds \ {c} :
                HostnamesOf(client_hostnames', d) = HostnamesOf(client_hostnames, d)]_vars

\* C25: while a hostname stays registered, the checks of the monitoring
\* thread look it up at most once per DNS_CHECK_INTERVAL, whether the
\* lookups succeed or fail: a check looks up no hostname that an earlier
\* check looked up less than DNS_CHECK_INTERVAL before.
C25_OneLookupPerInterval ==
    [][(dnsLoop.pc = "check" /\ dnsLoop'.pc # "check") =>
         \A h \in LookedUp :
            ~( /\ dnsLoop.lookedAt[h].has
               /\ now - dnsLoop.lookedAt[h].t < DNS_CHECK_INTERVAL )]_vars

\* C23: with a callback registered, every overwrite of a hostname's stored
\* address A by a different address B is delivered to the callback as a
\* change event: once the call of check_hostname_changes is over, no
\* overwrite it made is left undelivered.
C23_OverwriteDelivered ==
    ck.pc = "idle" => ck.owed = {}

\* C29: every hostname with a stored address or a last-check timestamp is
\* registered to some client.
C29_CacheOnlyForRegistered ==
    \A h \in Hostnames :
        (resolved_ips[h] # NoAddr \/ last_checks[h].has) =>
            h \in RegisteredHosts(client_hostnames)

====
